---- MODULE Spec2Model ----
(***************************************************************************)
(* Model of lalasClase.py: the GenerateAudioResponse dataclass and the     *)
(* LalasAPI client (construction from a .env file, generate_audio,         *)
(* retrieve_audio, save_response).                                         *)
(*                                                                         *)
(* Python values are tagged records [t |-> type, v |-> repr]; an optional  *)
(* value (None / a raised exception / a returned object) is a sequence of  *)
(* length 0 or 1.  Exceptions keep the Python class the code raises:       *)
(*   ValueError        = MissingCredentialsError of the specification      *)
(*   FileNotFoundError = PromptFileNotFoundError                           *)
(*   Exception         = ApiRequestError                                   *)
(*   TypeError         = MalformedResponseError                            *)
(***************************************************************************)
EXTENDS Integers, Sequences, FiniteSets, TLC

VARIABLES environ, clients, clock, dirs, files, data, obj, last

vars == <<environ, clients, clock, dirs, files, data, obj, last>>

(* ------------------------------ bounds --------------------------------- *)

\* wall-clock seconds run over 0..MaxClock
MaxClock == 1

\* number of LalasAPI(...) constructions in one process
MaxClients == 3

(* --------------------------- Python values ----------------------------- *)

PyBool(b) == [t |-> "bool", v |-> b]
PyStr(s)  == [t |-> "str",  v |-> s]
PyInt(n)  == [t |-> "int",  v |-> n]

\* str(x), as used by the f-string of to_txt_format: the type is lost
PyFormat(x) == x.v

(* ----------------------- GenerateAudioResponse ------------------------- *)

\* dataclass fields in declaration order
Fields == <<"success", "message", "task_id", "conversion_id_1", "conversion_id_2", "eta">>

FieldSet == {Fields[i] : i \in DOMAIN Fields}

\* the annotations of the dataclass (never enforced at run time)
Annotations ==
    [f \in FieldSet |->
        CASE f = "success" -> "bool"
          [] f = "eta"     -> "int"
          [] OTHER         -> "str"]

\* variant: the field eta is declared with a default value
NewGenerateAudioResponse_EtaDefault(d) ==
    IF DOMAIN d \subseteq {Fields[i] : i \in DOMAIN Fields}
       /\ {Fields[i] : i \in DOMAIN Fields} \ {"eta"} \subseteq DOMAIN d
    THEN [raised |-> <<>>,
          self |-> <<[f \in {Fields[i] : i \in DOMAIN Fields} |->
                        IF f \in DOMAIN d THEN d[f] ELSE PyInt("0")]>>]
    ELSE [raised |-> <<[type |-> "TypeError", args |-> <<>>]>>, self |-> <<>>]

\* GenerateAudioResponse(**d): the generated __init__ binds keyword arguments
\* to fields; a missing or an unexpected keyword raises TypeError.  No value
\* is inspected.
NewGenerateAudioResponse(d) ==
    IF DOMAIN d = FieldSet
    THEN [raised |-> <<>>, self |-> <<[f \in FieldSet |-> d[f]]>>]
    ELSE [raised |-> <<[type |-> "TypeError", args |-> <<>>]>>, self |-> <<>>]

\* variant: conversion_id_2 is filled from conversion_id_1
to_dict_CopySlip(self) ==
    [f \in {Fields[i] : i \in DOMAIN Fields} |->
        IF f = "conversion_id_2" THEN self["conversion_id_1"] ELSE self[f]]

\* asdict(self): one entry per field, in field order, values copied
to_dict(self) == [f \in {Fields[i] : i \in DOMAIN Fields} |-> self[f]]

\* the labels of the text template, in template order
Labels == <<"Exito", "Mensaje", "ID de tarea", "ID de conversion 1",
            "ID de conversion 2", "Tiempo estimado">>

\* to_txt_format(self), with now the value read from datetime.now()
to_txt_format(self, now) ==
    [fecha |-> [fmt |-> "%Y-%m-%d %H:%M:%S", t |-> now],
     lines |-> [i \in DOMAIN Fields |-> <<Labels[i], PyFormat(self[Fields[i]])>>]]

(* ------------------------------ inputs --------------------------------- *)

\* the reply of the specification's scenario
R0 ==
    [f \in FieldSet |->
        CASE f = "success"         -> PyBool("True")
          [] f = "message"         -> PyStr("queued")
          [] f = "task_id"         -> PyStr("T1")
          [] f = "conversion_id_1" -> PyStr("C1")
          [] f = "conversion_id_2" -> PyStr("C2")
          [] f = "eta"             -> PyInt("30")]

R1 ==
    [f \in FieldSet |->
        CASE f = "success"         -> PyBool("False")
          [] f = "message"         -> PyStr("failed")
          [] f = "task_id"         -> PyStr("T2")
          [] f = "conversion_id_1" -> PyStr("C3")
          [] f = "conversion_id_2" -> PyStr("C4")
          [] f = "eta"             -> PyInt("0")]

\* a JSON value of another type than the annotation of field f
WrongValue(f) ==
    CASE f = "success" -> PyStr("yes")
      [] f = "eta"     -> PyStr("30")
      [] OTHER         -> PyInt("7")

Without(d, ks) == [k \in (DOMAIN d) \ ks |-> d[k]]

WrongAt(d, f) == [k \in DOMAIN d |-> IF k = f THEN WrongValue(f) ELSE d[k]]

WithExtra(d) == [k \in (DOMAIN d) \cup {"status"} |-> IF k = "status" THEN PyStr("ok") ELSE d[k]]

ValidReplies == {R0, R1}

Replies ==
    ValidReplies
    \cup {Without(d, {f}) : d \in ValidReplies, f \in FieldSet}
    \cup {Without(d, {"task_id", "eta"}) : d \in ValidReplies}
    \cup {Without(WrongAt(d, "success"), {"eta"}) : d \in ValidReplies}
    \cup {WrongAt(d, f) : d \in ValidReplies, f \in FieldSet}
    \cup {WithExtra(d) : d \in ValidReplies}

(* ------------------------------- state --------------------------------- *)

NoLast ==
    [op |-> "none", env_path |-> "", prompt_file |-> "", task_id |-> "",
     conversion_type |-> "", save_response_files |-> FALSE,
     self |-> <<>>, response |-> <<>>, sent |-> <<>>, raised |-> <<>>,
     output_dir |-> "", returned |-> <<>>, text |-> <<>>, paths |-> <<>>,
     printed |-> <<>>,
     obj_before |-> <<>>, files_before |-> <<>>]

TypeOK ==
    /\ clock \in 0..MaxClock
    /\ Len(obj) \in {0, 1}
    /\ Len(last.raised) \in {0, 1}

(* ---------------- the response model used on its own ------------------- *)

\* api_response = GenerateAudioResponse(**data)
NewResponse ==
    LET r == NewGenerateAudioResponse(data) IN
    /\ obj' = r.self
    /\ last' = [NoLast EXCEPT !.op = "GenerateAudioResponse",
                              !.raised = r.raised, !.returned = r.self,
                              !.obj_before = obj]
    /\ UNCHANGED <<environ, clients, clock, dirs, files, data>>

\* api_response.to_dict()
ToDict ==
    /\ obj # <<>>
    /\ last' = [NoLast EXCEPT !.op = "to_dict", !.self = obj,
                              !.returned = <<to_dict(obj[1])>>,
                              !.obj_before = obj]
    /\ UNCHANGED <<environ, clients, clock, dirs, files, data, obj>>

\* api_response.to_txt_format(); datetime.now() is read once
ToTxtFormat ==
    /\ obj # <<>>
    /\ \E now \in clock..MaxClock :
        /\ clock' = now
        /\ last' = [NoLast EXCEPT !.op = "to_txt_format", !.self = obj,
                                  !.text = <<to_txt_format(obj[1], now)>>,
                                  !.obj_before = obj]
    /\ UNCHANGED <<environ, clients, dirs, files, data, obj>>

InitResponse ==
    /\ environ = <<>>
    /\ clients = <<>>
    /\ clock \in 0..MaxClock
    /\ dirs = {}
    /\ files = <<>>
    /\ data \in Replies
    /\ obj = <<>>
    /\ last = NoLast

NextResponse == NewResponse \/ ToDict \/ ToTxtFormat

SpecResponse == InitResponse /\ [][NextResponse]_vars

(* ------------------------- client construction ------------------------- *)

\* the .env files of the file system: LALAS_API_KEY as each file gives it
\* (<<>>: the file has no such key; "missing.env" does not exist)
DotenvFS ==
    [p \in {"missing.env", "nokey.env", "empty.env", "k1.env", "k2.env"} |->
        CASE p = "empty.env" -> <<"">>
          [] p = "k1.env"    -> <<"K1">>
          [] p = "k2.env"    -> <<"K2">>
          [] OTHER           -> <<>>]

EnvPaths == DOMAIN DotenvFS

\* load_dotenv(env_path), override left at its default False: a variable the
\* process environment already has is kept, whatever the file says
load_dotenv(env, env_path) ==
    IF env # <<>> THEN env ELSE DotenvFS[env_path]

\* LalasAPI(env_path): the environment after the call and the outcome
NewLalasAPI(env, env_path) ==
    LET env2    == load_dotenv(env, env_path)
        api_key == env2                      \* os.getenv('LALAS_API_KEY')
    IN  IF api_key = <<>> \/ api_key = <<"">>
        THEN [environ |-> env2,
              raised  |-> <<[type |-> "ValueError", args |-> <<>>]>>,
              self    |-> <<>>]
        ELSE [environ |-> env2,
              raised  |-> <<>>,
              self    |-> <<[api_key  |-> api_key[1],
                            base_url |-> "https://api.lalals.com/api/public/v1",
                            headers  |-> [accept |-> "application/json",
                                          Authorization |-> api_key[1]]]>>]

\* client = LalasAPI(env_path)
Construct ==
    /\ Len(clients) < MaxClients
    /\ \E env_path \in EnvPaths :
        LET r == NewLalasAPI(environ, env_path) IN
        /\ environ' = r.environ
        /\ clients' = Append(clients, [env_path |-> env_path, raised |-> r.raised,
                                       self |-> r.self])
        /\ last' = [NoLast EXCEPT !.op = "LalasAPI", !.env_path = env_path,
                                  !.raised = r.raised, !.self = r.self]
    /\ UNCHANGED <<clock, dirs, files, data, obj>>

\* the process starts with LALAS_API_KEY unset, empty or set
InitClient ==
    /\ environ \in {<<>>, <<"">>, <<"K1">>, <<"K2">>}
    /\ clients = <<>>
    /\ clock = 0
    /\ dirs = {}
    /\ files = <<>>
    /\ data = R0
    /\ obj = <<>>
    /\ last = NoLast

NextClient == Construct

SpecClient == InitClient /\ [][NextClient]_vars

(* ------------------------------- JSON ---------------------------------- *)

\* variant: booleans are written through str(), as quoted strings
JsonToken_BoolAsStr(x) ==
    CASE x.t = "int" -> [kind |-> "number", text |-> x.v]
      [] OTHER       -> [kind |-> "string", text |-> x.v]

\* json.dump of one value: booleans become the literals true / false,
\* integers become numbers, strings become quoted strings
JsonToken(x) ==
    CASE x.t = "bool" -> [kind |-> "literal",
                          text |-> IF x.v = "True" THEN "true" ELSE "false"]
      [] x.t = "int"  -> [kind |-> "number", text |-> x.v]
      [] OTHER        -> [kind |-> "string", text |-> x.v]

\* json.load of one value
JsonValue(tok) ==
    CASE tok.kind = "literal" -> PyBool(IF tok.text = "true" THEN "True" ELSE "False")
      [] tok.kind = "number"  -> PyInt(tok.text)
      [] OTHER                -> PyStr(tok.text)

\* a text that is not JSON
PlainText(s) == [kind |-> "plain", plain |-> s, members |-> <<>>]

\* json.dump(d): the text of a JSON object
json_dumps(d) ==
    [kind |-> "json", plain |-> "", members |-> [k \in DOMAIN d |-> JsonToken(d[k])]]

\* response.json() / json.load(text)
json_loads(text) ==
    IF text.kind = "json"
    THEN [raised |-> <<>>,
          value  |-> <<[k \in DOMAIN text.members |-> JsonValue(text.members[k])]>>]
    ELSE [raised |-> <<[type |-> "JSONDecodeError", args |-> <<>>]>>, value |-> <<>>]

(* ---------------------------- file system ------------------------------ *)

Whitespace == {" ", "\n"}

\* the prompt files that exist, as sequences of characters
PromptFS ==
    [p \in {"prompt.txt"} |-> <<" ", "u", "p", "\n">>]

PromptPaths == {"prompt.txt", "missing.txt"}

RECURSIVE lstrip(_)
lstrip(s) ==
    IF s # <<>> /\ Head(s) \in Whitespace THEN lstrip(Tail(s)) ELSE s

RECURSIVE rstrip(_)
rstrip(s) ==
    IF s # <<>> /\ s[Len(s)] \in Whitespace THEN rstrip(SubSeq(s, 1, Len(s) - 1)) ELSE s

\* str.strip()
strip(s) == rstrip(lstrip(s))

\* variant: a missing file reads as an empty prompt
read_prompt_from_file_Swallow(file_path) ==
    IF file_path \in DOMAIN PromptFS
    THEN [raised |-> <<>>, value |-> strip(PromptFS[file_path])]
    ELSE [raised |-> <<>>, value |-> <<>>]

\* read_prompt_from_file(file_path)
read_prompt_from_file(file_path) ==
    IF file_path \in DOMAIN PromptFS
    THEN [raised |-> <<>>, value |-> strip(PromptFS[file_path])]
    ELSE [raised |-> <<[type |-> "FileNotFoundError", args |-> <<file_path>>]>>,
          value  |-> <<>>]

\* open(path, 'w') ... write(content)
WriteFile(fs, path, content) ==
    [p \in (DOMAIN fs) \cup {path} |-> IF p = path THEN content ELSE fs[p]]

\* os.path.join(output_dir, f"lalas_response_{timestamp}{ext}")
ResponsePath(output_dir, t, ext) ==
    [dir |-> output_dir, prefix |-> "lalas_response_",
     stamp |-> [fmt |-> "%Y%m%d_%H%M%S", t |-> t], ext |-> ext]

\* save_response(response, output_dir); t1 and t2 are the two values read
\* from datetime.now(), for the file name and inside to_txt_format
save_response(ds, fs, response, output_dir, t1, t2) ==
    LET txt_path  == ResponsePath(output_dir, t1, ".txt")
        json_path == ResponsePath(output_dir, t1, ".json")
        fs1       == WriteFile(fs, txt_path, to_txt_format(response, t2))
        fs2       == WriteFile(fs1, json_path, json_dumps(to_dict(response)))
    IN  [dirs |-> ds \cup {output_dir}, files |-> fs2,
         returned |-> <<txt_path, json_path>>]

(* ------------------------------ the API -------------------------------- *)

\* the replies the mocked server gives with status 200
ApiReplies ==
    {R0, WrongAt(R0, "eta"), WithExtra(R0), Without(R0, {"task_id", "eta"})}
    \cup {Without(R0, {f}) : f \in FieldSet}

\* what the server may answer to one request
ServerResponses ==
    {[status_code |-> 200, text |-> json_dumps(d)] : d \in ApiReplies}
    \cup {[status_code |-> 200, text |-> PlainText("<html>")],
          [status_code |-> 201, text |-> json_dumps(R0)],
          [status_code |-> 404, text |-> PlainText("not found")],
          [status_code |-> 500, text |-> PlainText("")]}

\* what the server may answer to the GET of retrieve_audio
RetrieveResponses ==
    {[status_code |-> 200, text |-> json_dumps(R0)],
     [status_code |-> 200, text |-> PlainText("<html>")],
     [status_code |-> 404, text |-> PlainText("not found")]}

MusicStyles == {"pop"}

TaskIds == {"a72c79d7-0800-41ba-a527-17e79e46cb4f",
            "c53d8f7c-ec0d-44ce-bca0-d437d426556c", "T1"}

ConversionTypes == {"MUSIC_AI", "VOICE"}

\* the outcome of a call that has done nothing yet
Outcome(ds, fs) ==
    [sent |-> <<>>, raised |-> <<>>, returned |-> <<>>, paths |-> <<>>,
     printed |-> <<>>, dirs |-> ds, files |-> fs]

\* variant: the message leaves the response body out
ApiError_NoBody(resp) ==
    [type |-> "Exception",
     args |-> <<"Error en la API: ", resp.status_code, " - ", PlainText("")>>]

\* Exception(f"Error en la API: {response.status_code} - {response.text}")
ApiError(resp) ==
    [type |-> "Exception",
     args |-> <<"Error en la API: ", resp.status_code, " - ", resp.text>>]

\* generate_audio(prompt_file, ...); resp is the server's answer to the POST,
\* t1 and t2 the values of datetime.now() if the response is saved
generate_audio(self, ds, fs, prompt_file, music_style, webhook_url, lyrics, voice_id, save_response_files, resp, t1, t2) ==
    LET prompt  == read_prompt_from_file(prompt_file)
        payload == [prompt |-> prompt.value, music_style |-> music_style,
                    webhook_url |-> webhook_url, lyrics |-> lyrics,
                    voice_id |-> voice_id]
        request == [method |-> "POST", url |-> <<self.base_url, "/MusicAI">>,
                    headers |-> self.headers, json |-> <<payload>>,
                    params |-> <<>>]
        posted  == [Outcome(ds, fs) EXCEPT !.sent = <<request>>]
        decoded == json_loads(resp.text)
        built   == NewGenerateAudioResponse(decoded.value[1])
        saved   == save_response(ds, fs, built.self[1], "responses", t1, t2)
    IN  IF prompt.raised # <<>>
        THEN [Outcome(ds, fs) EXCEPT !.raised = prompt.raised]
        ELSE IF resp.status_code # 200
        THEN [posted EXCEPT !.raised = <<ApiError(resp)>>]
        ELSE IF decoded.raised # <<>>
        THEN [posted EXCEPT !.raised = decoded.raised]
        ELSE IF built.raised # <<>>
        THEN [posted EXCEPT !.raised = built.raised]
        ELSE IF save_response_files
        THEN [posted EXCEPT !.returned = built.self,
                            !.dirs = saved.dirs, !.files = saved.files,
                            !.paths = saved.returned,
                            !.printed = <<"Respuesta guardada en:", saved.returned>>]
        ELSE [posted EXCEPT !.returned = built.self]

\* retrieve_audio(task_id, conversion_type); resp is the server's answer
retrieve_audio(self, ds, fs, task_id, conversion_type, resp) ==
    LET payload == [task_id |-> "c53d8f7c-ec0d-44ce-bca0-d437d426556c",
                    conversionType |-> conversion_type]
        request == [method |-> "GET", url |-> <<self.base_url, "/byId">>,
                    headers |-> self.headers, json |-> <<>>,
                    params |-> <<payload>>]
        got     == [Outcome(ds, fs) EXCEPT !.sent = <<request>>]
        decoded == json_loads(resp.text)
    IN  IF resp.status_code = 200
        THEN IF decoded.raised # <<>>
             THEN [got EXCEPT !.raised = decoded.raised]
             ELSE [got EXCEPT !.printed = <<"Response: ", decoded.value[1]>>]
        ELSE got

\* the clients that were constructed
Constructed == {clients[i].self[1] : i \in {j \in DOMAIN clients : clients[j].self # <<>>}}

\* client.generate_audio(prompt_file, music_style=..., save_response_files=...)
GenerateAudio ==
    \E self \in Constructed, prompt_file \in PromptPaths,
       music_style \in MusicStyles, save_response_files \in BOOLEAN,
       resp \in ServerResponses :
    \E t1 \in clock..MaxClock :
    \E t2 \in t1..MaxClock :
        LET probe == generate_audio(self, dirs, files, prompt_file, music_style,
                                    "http://api.lalals.com", "", "Drake",
                                    save_response_files, resp, clock, clock)
            r == generate_audio(self, dirs, files, prompt_file, music_style,
                                "http://api.lalals.com", "", "Drake",
                                save_response_files, resp, t1, t2)
        IN  \* the clock is read only when the response is saved
            /\ probe.paths = <<>> => t1 = clock /\ t2 = clock
            /\ dirs' = r.dirs
            /\ files' = r.files
            /\ clock' = IF r.paths # <<>> THEN t2 ELSE clock
            /\ last' = [NoLast EXCEPT
                          !.op = "generate_audio", !.self = <<self>>,
                          !.prompt_file = prompt_file,
                          !.save_response_files = save_response_files,
                          !.response = IF r.sent # <<>> THEN <<resp>> ELSE <<>>,
                          !.output_dir = "responses",
                          !.sent = r.sent, !.raised = r.raised,
                          !.returned = r.returned, !.paths = r.paths,
                          !.printed = r.printed, !.files_before = files]
            /\ UNCHANGED <<environ, clients, data, obj>>

\* client.retrieve_audio(task_id, conversion_type)
RetrieveAudio ==
    \E self \in Constructed, task_id \in TaskIds,
       conversion_type \in ConversionTypes, resp \in RetrieveResponses :
        LET r == retrieve_audio(self, dirs, files, task_id, conversion_type, resp)
        IN  /\ dirs' = r.dirs
            /\ files' = r.files
            /\ last' = [NoLast EXCEPT
                          !.op = "retrieve_audio", !.self = <<self>>,
                          !.task_id = task_id,
                          !.conversion_type = conversion_type,
                          !.response = <<resp>>,
                          !.sent = r.sent, !.raised = r.raised,
                          !.returned = r.returned, !.paths = r.paths,
                          !.printed = r.printed, !.files_before = files]
            /\ UNCHANGED <<environ, clients, clock, data, obj>>

\* the response models a caller holds
Responses == {NewGenerateAudioResponse(d).self[1] : d \in {R0, WrongAt(R0, "eta")}}

OutputDirs == {"responses"}

\* client.save_response(response, output_dir)
SaveResponse ==
    \E self \in Constructed, response \in Responses, output_dir \in OutputDirs :
    \E t1 \in clock..MaxClock :
    \E t2 \in t1..MaxClock :
        LET r == save_response(dirs, files, response, output_dir, t1, t2)
        IN  /\ dirs' = r.dirs
            /\ files' = r.files
            /\ clock' = t2
            /\ last' = [NoLast EXCEPT
                          !.op = "save_response", !.self = <<response>>,
                          !.output_dir = output_dir,
                          !.paths = r.returned, !.files_before = files]
            /\ UNCHANGED <<environ, clients, data, obj>>

\* a client built from a .env file that holds a key, no response saved yet
InitApi ==
    /\ \E env_path \in {"k1.env"} :
        LET r == NewLalasAPI(<<>>, env_path) IN
        /\ r.self # <<>>
        /\ environ = r.environ
        /\ clients = <<[env_path |-> env_path, raised |-> r.raised, self |-> r.self]>>
    /\ clock = 0
    /\ dirs = {}
    /\ files = <<>>
    /\ data = R0
    /\ obj = <<>>
    /\ last = NoLast

NextApi == GenerateAudio \/ RetrieveAudio \/ SaveResponse

SpecApi == InitApi /\ [][NextApi]_vars

(* ------------------------------ properties ----------------------------- *)

\* the reply has exactly the required keys, each with a value of the
\* annotated type
Valid(d) ==
    /\ DOMAIN d = FieldSet
    /\ \A f \in FieldSet : d[f].t = Annotations[f]

\* the reply lacks a required key, or a required key has a value of another
\* type than the annotated one
Malformed(d) ==
    \/ FieldSet \ DOMAIN d # {}
    \/ \E f \in FieldSet \cap DOMAIN d : d[f].t # Annotations[f]

\* the reply the last call decoded from the server's answer, if it got one
DecodedReply ==
    IF last.response # <<>> /\ last.response[1].status_code = 200
    THEN json_loads(last.response[1].text).value
    ELSE <<>>

\* C1: whenever the POST of generate_audio is answered with a status other
\* than 200, the call raises Exception (ApiRequestError) whose message holds
\* that status code and that response body, and returns no response model.
C1_NonOkStatusRaises ==
    (last.op = "generate_audio" /\ last.response # <<>>
        /\ last.response[1].status_code # 200)
    => /\ Len(last.raised) = 1
       /\ last.raised[1].type = "Exception"
       /\ last.raised[1].args[2] = last.response[1].status_code
       /\ last.raised[1].args[4] = last.response[1].text
       /\ last.returned = <<>>

C1_Witness ==
    /\ last.op = "generate_audio"
    /\ last.response = <<[status_code |-> 404, text |-> PlainText("not found")]>>
    /\ last.raised = <<ApiError([status_code |-> 404, text |-> PlainText("not found")])>>

\* C2: when the prompt file does not exist, generate_audio raises
\* FileNotFoundError (PromptFileNotFoundError), has sent no request, has
\* written no file and returns nothing.
C2_MissingPromptBeforeNetwork ==
    (last.op = "generate_audio" /\ last.prompt_file \notin DOMAIN PromptFS)
    => /\ Len(last.raised) = 1
       /\ last.raised[1].type = "FileNotFoundError"
       /\ last.sent = <<>>
       /\ last.paths = <<>>
       /\ files = last.files_before
       /\ last.returned = <<>>

C2_Witness ==
    /\ last.op = "generate_audio"
    /\ last.prompt_file = "missing.txt"
    /\ last.raised # <<>>
    /\ last.sent = <<>>

\* C3 (as claimed): retrieve_audio sends one GET to {base_url}/byId whose
\* query parameter task_id is the task_id argument and whose conversionType
\* is the conversion_type argument.
C3_QueryCarriesArguments ==
    last.op = "retrieve_audio"
    => /\ Len(last.sent) = 1
       /\ last.sent[1].method = "GET"
       /\ last.sent[1].url = <<last.self[1].base_url, "/byId">>
       /\ last.sent[1].params[1].task_id = last.task_id
       /\ last.sent[1].params[1].conversionType = last.conversion_type

\* C4: when the decoded reply lacks at least one required key, building the
\* response model raises TypeError (MalformedResponseError), which leaves
\* generate_audio with no response model returned.
C4_MissingKeyRaises ==
    (last.op = "generate_audio" /\ DecodedReply # <<>>
        /\ FieldSet \ DOMAIN DecodedReply[1] # {})
    => /\ Len(last.raised) = 1
       /\ last.raised[1].type = "TypeError"
       /\ last.returned = <<>>

C4_Witness ==
    /\ last.op = "generate_audio"
    /\ DecodedReply = <<Without(R0, {"eta"})>>
    /\ last.raised # <<>>

\* C5 (as claimed): when the reply has all required keys but some value is
\* of another type than the annotated one, building the response model
\* raises TypeError (MalformedResponseError).
C5_WrongTypeRaises ==
    (last.op = "GenerateAudioResponse" /\ DOMAIN data = FieldSet
        /\ \E f \in FieldSet : data[f].t # Annotations[f])
    => /\ Len(last.raised) = 1
       /\ last.raised[1].type = "TypeError"
       /\ obj = <<>>

\* C6 (as claimed): a construction succeeds when its .env file holds a
\* non-empty key, and raises ValueError (MissingCredentialsError), leaving no
\* client, when the file holds no key or the empty string.
C6_ConstructionFollowsFile ==
    \A i \in DOMAIN clients :
        LET key == DotenvFS[clients[i].env_path] IN
        /\ key \notin {<<>>, <<"">>}
            => clients[i].raised = <<>> /\ clients[i].self # <<>>
        /\ key \in {<<>>, <<"">>}
            => /\ Len(clients[i].raised) = 1
               /\ clients[i].raised[1].type = "ValueError"
               /\ clients[i].self = <<>>

\* C7: a call of save_response leaves two files, <base>.txt and <base>.json
\* with one timestamp-derived base name in the output directory, returns
\* both paths, touches no other file, and the .txt holds the text view of
\* the response and the .json parses to the field values of the response.
C7_SaveWritesBothViews ==
    /\ last.op = "save_response" => Len(last.paths) = 2
    /\ Len(last.paths) = 2 =>
        LET txt      == last.paths[1]
            json     == last.paths[2]
            response == IF last.op = "save_response"
                        THEN last.self[1] ELSE last.returned[1]
            parsed   == json_loads(files[json])
        IN  /\ txt = ResponsePath(last.output_dir, txt.stamp.t, ".txt")
            /\ json = ResponsePath(last.output_dir, txt.stamp.t, ".json")
            /\ DOMAIN files = (DOMAIN last.files_before) \cup {txt, json}
            /\ \A p \in (DOMAIN last.files_before) \ {txt, json} :
                  files[p] = last.files_before[p]
            /\ \E t \in 0..MaxClock : files[txt] = to_txt_format(response, t)
            /\ parsed.raised = <<>>
            /\ parsed.value = <<[f \in FieldSet |-> response[f]]>>

C7_Witness ==
    /\ last.op = "save_response"
    /\ last.self = <<R0>>
    /\ Len(last.paths) = 2
    /\ last.paths[1] \in DOMAIN last.files_before
    /\ files # last.files_before

\* C8: for a reply with exactly the required keys and correctly typed
\* values, the response model is built and to_dict() of it equals the reply;
\* to_dict() and to_txt_format() leave the response model as it was.
C8_RoundTrip ==
    /\ (Valid(data) /\ last.op = "GenerateAudioResponse")
        => last.raised = <<>> /\ obj # <<>>
    /\ (Valid(data) /\ last.op = "to_dict") => last.returned = <<data>>
    /\ last.op \in {"to_dict", "to_txt_format"} => obj = last.obj_before

C8_Witness ==
    /\ Valid(data)
    /\ last.op = "to_dict"
    /\ last.returned = <<R1>>

\* C9 (as claimed): generate_audio writes output files exactly when the POST
\* returned 200, the reply became a response model and save_response_files
\* is true; with a missing prompt file, a non-200 status, a malformed reply
\* or save_response_files false the files are as they were.
C9_FilesWrittenOnlyOnSuccess ==
    last.op = "generate_audio" =>
        /\ last.paths # <<>>
            <=> /\ last.response # <<>>
                /\ last.response[1].status_code = 200
                /\ last.returned # <<>>
                /\ last.save_response_files
        /\ (\/ last.prompt_file \notin DOMAIN PromptFS
            \/ last.response # <<>> /\ last.response[1].status_code # 200
            \/ DecodedReply # <<>> /\ Malformed(DecodedReply[1])
            \/ ~last.save_response_files)
            => files = last.files_before /\ last.paths = <<>>

\* C10 (as claimed): every constructed client holds the key of the .env file
\* given to its own construction, and a construction whose file has no key
\* fails, whatever was constructed before and whatever the environment held.
C10_ClientHoldsKeyOfItsFile ==
    \A i \in DOMAIN clients :
        /\ clients[i].self # <<>>
            => <<clients[i].self[1].api_key>> = DotenvFS[clients[i].env_path]
        /\ DotenvFS[clients[i].env_path] = <<>> => clients[i].self = <<>>

====
